---- MODULE Spec2Model ----
(***************************************************************************)
(* A model of leftthomas/SCN: utils.py (MusicData, process_data,           *)
(* load_data) and the __main__ script of train.py.                         *)
(*                                                                         *)
(* Four specifications share the variables:                               *)
(*   Spec      calls of utils.load_data / utils.process_data acting on the *)
(*             files under data/<data_type>/                               *)
(*   SpecMusic constructions of utils.MusicData                            *)
(*   SpecMain  train.py from its first line up to the call of load_data    *)
(*   SpecLoop  the epoch loop of train.py, lines 70-155, entered at line   *)
(*             70 on the premise that the setup of lines 19-68 and the     *)
(*             visualisation of lines 134-151 complete (utils.py defines   *)
(*             neither a load_data of the called shape nor ProbAM)         *)
(*                                                                         *)
(* Labels are modelled as naturals whose numeric order stands for the      *)
(* order Python's sorted() gives the label strings.                        *)
(***************************************************************************)
EXTENDS Integers, Sequences, FiniteSets, TLC

(* ------------------------------ bounds -------------------------------- *)
\* audio files of a dataset
NumFiles == 3
\* distinct scene labels
NumLabels == 3
\* rows of a table handed to MusicData
MaxRows == 3
\* calls of load_data / process_data in one behaviour
MaxCalls == 3
\* largest --num_epochs tried
MaxEpochs == 3
\* batches the train loader and the test loader yield
NumTrainBatches == 2
NumTestBatches == 2

VARIABLES
    \* ---- the file system
    fs_dirs,          \* directories that exist
    fs_features,      \* feature files that exist
    fs_norm,          \* normalization-factor files: path -> content
    \* ---- utils.py control state
    pc,               \* position inside load_data / process_data
    data_type,        \* argument of the running (or last) call
    data_set,         \* the dataset object: [cls, initialized]
    via_load_data,    \* process_data was entered from load_data
    dir_missing,      \* line 33 found no features directory in this call
    idx,              \* position of the running for-loop
    normalizer,       \* files accumulated by the Normalizer of line 50
    filtered_train, filtered_val, filtered_test,
    loaders,          \* what load_data returned
    outcome,          \* how the last call ended
    norm_saves,       \* data_type -> number of times line 61 ran
    calls,
    \* ---- MusicData
    data_list_arg,    \* the argument of the last MusicData(...)
    inst,             \* the object the last MusicData(...) produced
    norm_loaded_path, \* the filename line 21 asked the Normalizer to load
    \* ---- train.py
    tpc,              \* position inside train.py
    opt,              \* the parsed arguments
    epoch, batch,     \* the loop variable, and the batches the running phase has done
    results,          \* the six lists of line 30
    results_src,      \* for every entry of results, the batches it was computed from
    meter_loss, meter_accuracy, meter_confuse,
    best_acc,
    checkpoint,       \* epochs/<DATA_NAME>.pth
    csv,              \* statistics/<DATA_NAME>_results.csv
    params,           \* version of the model parameters
    optimizer_steps, lr_steps, iter_steps

fsVars == <<fs_dirs, fs_features, fs_norm>>
callVars == <<pc, data_type, data_set, via_load_data, dir_missing, idx, normalizer,
              filtered_train, filtered_val, filtered_test, loaders, outcome,
              norm_saves, calls>>
musicVars == <<data_list_arg, inst, norm_loaded_path>>
utilsVars == <<fsVars, callVars, musicVars>>
trainVars == <<tpc, opt, epoch, batch, results, results_src, meter_loss, meter_accuracy,
               meter_confuse, best_acc, checkpoint, csv, params, optimizer_steps,
               lr_steps, iter_steps>>
vars == <<utilsVars, trainVars>>

(* --------------------------- names and paths -------------------------- *)
RecognisedNames == {"DCASE2018A", "DCASE2018B", "DCASE2019A", "DCASE2019B"}
\* inputs tried for data_type: the four names of utils.py and two others
DataTypes == RecognisedNames \cup {"voc", "DCASE2017"}

FeaturesPath(d) == <<"data", d, "features">>
FeatureFilename(d, f) == <<"data", d, "features", f>>
NormFactorsPath(d) == <<"data", d, "norm_factors.cpickle">>
MusicDataNormPath == <<"norm_factors.cpickle">>
NoPath == <<>>
NormPaths == {NormFactorsPath(d) : d \in DataTypes} \cup {MusicDataNormPath}

Absent == [kind |-> "absent", over |-> {}]
Exists(path) == fs_norm[path].kind # "absent"

(* ------------------------- the dataset library ------------------------ *)
Files == 1..NumFiles
\* data_set.train_files(fold=1): the training files of fold 1
TrainFold1 == [i \in 1..(NumFiles - 1) |-> i]
\* variant: line 39 walks the fold-1 training files only
TrainFilesAll_fold1 == [i \in 1..(NumFiles - 1) |-> i]
\* data_set.train_files(): every audio file of the dataset
TrainFilesAll == [i \in 1..NumFiles |-> i]
\* data_set.eval(fold=1).unique_files
EvalFold1 == {NumFiles}
\* data_set.meta.filter(filename=f).unique_scene_labels[0]
SceneLabel(f) == ((f - 1) % NumLabels) + 1

Range(s) == {s[i] : i \in DOMAIN s}

Min(S) == CHOOSE x \in S : \A y \in S : x <= y

RECURSIVE Sorted(_)
\* sorted(S): the elements of S in ascending order
Sorted(S) == IF S = {} THEN <<>> ELSE <<Min(S)>> \o Sorted(S \ {Min(S)})

NoDataSet == [cls |-> "none", initialized |-> FALSE]

\* variant: the chain ends in a plain else instead of the raise
DataSetClass_any(d) ==
    CASE d = "DCASE2018A" -> "TUTUrbanAcousticScenes_2018_DevelopmentSet"
      [] d = "DCASE2018B" -> "TUTUrbanAcousticScenes_2018_Mobile_DevelopmentSet"
      [] d = "DCASE2019A" -> "TAUUrbanAcousticScenes_2019_DevelopmentSet"
      [] OTHER -> "TAUUrbanAcousticScenes_2019_Mobile_DevelopmentSet"

\* the if/elif chain of load_data
DataSetClass(d) ==
    CASE d = "DCASE2018A" -> "TUTUrbanAcousticScenes_2018_DevelopmentSet"
      [] d = "DCASE2018B" -> "TUTUrbanAcousticScenes_2018_Mobile_DevelopmentSet"
      [] d = "DCASE2019A" -> "TAUUrbanAcousticScenes_2019_DevelopmentSet"
      [] d = "DCASE2019B" -> "TAUUrbanAcousticScenes_2019_Mobile_DevelopmentSet"
      [] OTHER -> "NotImplementedError"

(* ------------------------------ MusicData ----------------------------- *)
NoDataList == [kind |-> "none", rows |-> <<>>]
NoInst == [made |-> FALSE, samples |-> <<>>, label2index |-> <<>>, targets |-> <<>>,
           normalizer |-> Absent]

\* data_list[column].values; a plain list has no column access
HasColumns(data_list) == data_list.kind = "DataFrame"
FileLabels(data_list) == [i \in DOMAIN data_list.rows |-> data_list.rows[i].file_label]
FileNames(data_list) == [i \in DOMAIN data_list.rows |-> data_list.rows[i].file_name]

\* variant: enumerate(labels.unique()), in order of first appearance
Label2Index_unsorted(labels) ==
    LET first(l) == Min({i \in DOMAIN labels : labels[i] = l})
    IN  [l \in Range(labels) |->
            Cardinality({k \in Range(labels) : first(k) < first(l)})]

\* {label: index for index, label in enumerate(sorted(labels.unique()))}
Label2Index(labels) ==
    LET order == Sorted(Range(labels))
    IN  [l \in Range(labels) |-> (CHOOSE i \in DOMAIN order : order[i] = l) - 1]

\* np.array([label2index[label] for label in labels])
Targets(l2i, labels) == [i \in DOMAIN labels |-> l2i[labels[i]]]

\* MusicData.__len__
Len_MusicData(obj) == Len(obj.samples)

\* MusicData.__init__: the exception it raises, or "ok"
MusicDataRaises(data_list) ==
    IF ~HasColumns(data_list) THEN "TypeError"
    ELSE IF ~Exists(MusicDataNormPath) THEN "IOError"
    ELSE "ok"

\* MusicData.__init__: the object it leaves
MusicDataObject(data_list) ==
    [made |-> TRUE,
     samples |-> FileNames(data_list),
     label2index |-> Label2Index(FileLabels(data_list)),
     targets |-> Targets(Label2Index(FileLabels(data_list)), FileLabels(data_list)),
     normalizer |-> fs_norm[MusicDataNormPath]]

\* line 21 is reached only when lines 18-20 did not raise
MusicDataLoads(data_list) == IF HasColumns(data_list) THEN MusicDataNormPath ELSE NoPath

(* tables of at most MaxRows rows *)
Row == [file_name : 1..2, file_label : 1..NumLabels]
Tables == UNION {[1..n -> Row] : n \in 0..MaxRows}
DataLists == [kind : {"DataFrame", "list"}, rows : Tables]

(* ------------------------------- Init --------------------------------- *)
\* no call has been made; ./norm_factors.cpickle may or may not exist
UtilsInit ==
    /\ fs_dirs = {}
    /\ fs_features = {}
    /\ fs_norm \in {[p \in NormPaths |-> Absent],
                    [p \in NormPaths |-> IF p = MusicDataNormPath
                                         THEN [kind |-> "foreign", over |-> {}]
                                         ELSE Absent]}
    /\ pc = "idle"
    /\ data_type = "none"
    /\ data_set = NoDataSet
    /\ via_load_data = FALSE
    /\ dir_missing = FALSE
    /\ idx = 0
    /\ normalizer = {}
    /\ filtered_train = <<>>
    /\ filtered_val = <<>>
    /\ filtered_test = <<>>
    /\ loaders = "none"
    /\ outcome = "none"
    /\ norm_saves = [d \in DataTypes |-> 0]
    /\ calls = 0
    /\ data_list_arg = NoDataList
    /\ inst = NoInst
    /\ norm_loaded_path = NoPath


(* ------------------------------ load_data ----------------------------- *)
\* the locals a call starts from
FreshCall(d) ==
    /\ data_type' = d
    /\ dir_missing' = FALSE
    /\ idx' = 0
    /\ normalizer' = {}
    /\ filtered_train' = <<>>
    /\ filtered_val' = <<>>
    /\ filtered_test' = <<>>
    /\ loaders' = "none"
    /\ calls' = calls + 1

\* load_data lines 65-79: choose the dataset class or raise, then initialize()
LoadData(d) ==
    /\ pc = "idle"
    /\ calls < MaxCalls
    /\ FreshCall(d)
    /\ via_load_data' = TRUE
    /\ IF DataSetClass(d) = "NotImplementedError"
       THEN /\ outcome' = "NotImplementedError"
            /\ data_set' = NoDataSet
            /\ pc' = "idle"
       ELSE /\ outcome' = "running"
            /\ data_set' = [cls |-> DataSetClass(d), initialized |-> TRUE]
            /\ pc' = "process_data"
    /\ UNCHANGED <<trainVars, fsVars, norm_saves, musicVars>>

\* a direct call process_data(data_set, data_type) with an initialized dataset
ProcessDataCall(d) ==
    /\ pc = "idle"
    /\ calls < MaxCalls
    /\ d \in RecognisedNames
    /\ FreshCall(d)
    /\ via_load_data' = FALSE
    /\ outcome' = "running"
    /\ data_set' = [cls |-> DataSetClass(d), initialized |-> TRUE]
    /\ pc' = "process_data"
    /\ UNCHANGED <<trainVars, fsVars, norm_saves, musicVars>>

(* ----------------------------- process_data --------------------------- *)
\* process_data returns: to load_data line 82, or to the direct caller
ProcessDataReturns ==
    IF via_load_data
    THEN /\ pc' = "split"
         /\ outcome' = outcome
    ELSE /\ pc' = "idle"
         /\ outcome' = "returned"

\* line 33: not os.path.exists(features_path)
NeedsFeatures(d) == FeaturesPath(d) \notin fs_dirs

\* variant: the factors are recomputed on every call
NeedsNormFactors_always(d) == TRUE

\* line 48: not os.path.exists('data/<data_type>/norm_factors.cpickle')
NeedsNormFactors(d) == ~Exists(NormFactorsPath(d))

\* lines 32-37: the features directory is created when it is missing
ProcessBegin ==
    /\ pc = "process_data"
    /\ IF NeedsFeatures(data_type)
       THEN /\ dir_missing' = TRUE
            /\ fs_dirs' = fs_dirs \cup {FeaturesPath(data_type)}
            /\ idx' = 1
            /\ pc' = IF Len(TrainFilesAll) = 0 THEN "norm_check" ELSE "extract"
       ELSE /\ dir_missing' = FALSE
            /\ fs_dirs' = fs_dirs
            /\ idx' = idx
            /\ pc' = "norm_check"
    /\ UNCHANGED <<trainVars, fs_features, fs_norm, data_type, data_set, via_load_data, normalizer,
                   filtered_train, filtered_val, filtered_test, loaders, outcome,
                   norm_saves, calls, musicVars>>

\* lines 39-46, one iteration: the feature file of one audio file is saved
ExtractOne ==
    /\ pc = "extract"
    /\ idx <= Len(TrainFilesAll)
    /\ fs_features' = fs_features \cup {FeatureFilename(data_type, TrainFilesAll[idx])}
    /\ idx' = idx + 1
    /\ pc' = IF idx = Len(TrainFilesAll) THEN "norm_check" ELSE "extract"
    /\ UNCHANGED <<trainVars, fs_dirs, fs_norm, data_type, data_set, via_load_data, dir_missing,
                   normalizer, filtered_train, filtered_val, filtered_test, loaders,
                   outcome, norm_saves, calls, musicVars>>

\* line 43 raises (unreadable audio) or the run is interrupted: nothing is caught
ExtractRaises ==
    /\ pc = "extract"
    /\ idx <= Len(TrainFilesAll)
    /\ outcome' = "IOError"
    /\ pc' = "idle"
    /\ UNCHANGED <<trainVars, fsVars, data_type, data_set, via_load_data, dir_missing, idx,
                   normalizer, filtered_train, filtered_val, filtered_test, loaders,
                   norm_saves, calls, musicVars>>

\* lines 48-50: the factors are computed only when their file is missing
NormCheck ==
    /\ pc = "norm_check"
    /\ IF NeedsNormFactors(data_type)
       THEN /\ normalizer' = {}
            /\ idx' = 1
            /\ pc' = IF Len(TrainFold1) = 0 THEN "finalize" ELSE "accumulate"
            /\ outcome' = outcome
       ELSE /\ normalizer' = normalizer
            /\ idx' = idx
            /\ ProcessDataReturns
    /\ UNCHANGED <<trainVars, fsVars, data_type, data_set, via_load_data, dir_missing,
                   filtered_train, filtered_val, filtered_test, loaders, norm_saves,
                   calls, musicVars>>

\* lines 52-57, one iteration: load the feature file (it raises when the file is
\* missing) and accumulate it
AccumulateOne ==
    /\ pc = "accumulate"
    /\ idx <= Len(TrainFold1)
    /\ IF FeatureFilename(data_type, TrainFold1[idx]) \in fs_features
       THEN /\ normalizer' = normalizer \cup {TrainFold1[idx]}
            /\ idx' = idx + 1
            /\ pc' = IF idx = Len(TrainFold1) THEN "finalize" ELSE "accumulate"
            /\ outcome' = outcome
       ELSE /\ normalizer' = normalizer
            /\ idx' = idx
            /\ pc' = "idle"
            /\ outcome' = "IOError"
    /\ UNCHANGED <<trainVars, fsVars, data_type, data_set, via_load_data, dir_missing,
                   filtered_train, filtered_val, filtered_test, loaders, norm_saves,
                   calls, musicVars>>

\* lines 59-61: finalize and save the factors, then return
NormSave ==
    /\ pc = "finalize"
    /\ fs_norm' = [fs_norm EXCEPT ![NormFactorsPath(data_type)] =
                                        [kind |-> "computed", over |-> normalizer]]
    /\ norm_saves' = [norm_saves EXCEPT ![data_type] = @ + 1]
    /\ ProcessDataReturns
    /\ UNCHANGED <<trainVars, fs_dirs, fs_features, data_type, data_set, via_load_data,
                   dir_missing, idx, normalizer, filtered_train, filtered_val,
                   filtered_test, loaders, calls, musicVars>>

(* ------------------------ load_data, lines 82-108 --------------------- *)
\* lines 85-99: one row per audio file, the feature file's name and the scene label
Filtered(d, files) ==
    [i \in DOMAIN Sorted(files) |->
        [file_name |-> FeatureFilename(d, Sorted(files)[i]),
         file_label |-> SceneLabel(Sorted(files)[i])]]

\* lines 82-99: validation_split divides the fold-1 training files in two
BuildLists ==
    /\ pc = "split"
    /\ \E val \in SUBSET Range(TrainFold1) :
          /\ val # Range(TrainFold1)
          /\ filtered_train' = Filtered(data_type, Range(TrainFold1) \ val)
          /\ filtered_val' = Filtered(data_type, val)
    /\ filtered_test' = Filtered(data_type, EvalFold1)
    /\ pc' = "construct"
    /\ UNCHANGED <<trainVars, fsVars, data_type, data_set, via_load_data, dir_missing, idx,
                   normalizer, loaders, outcome, norm_saves, calls, musicVars>>

AsList(rows) == [kind |-> "list", rows |-> rows]

\* lines 101-108: the three MusicData objects, then the three loaders
Construct ==
    /\ pc = "construct"
    /\ LET raised == IF MusicDataRaises(AsList(filtered_train)) # "ok"
                     THEN MusicDataRaises(AsList(filtered_train))
                     ELSE IF MusicDataRaises(AsList(filtered_val)) # "ok"
                     THEN MusicDataRaises(AsList(filtered_val))
                     ELSE MusicDataRaises(AsList(filtered_test))
       IN  /\ outcome' = IF raised = "ok" THEN "returned" ELSE raised
           /\ loaders' = IF raised = "ok" THEN "train_val_test" ELSE "none"
           /\ inst' = IF raised = "ok" THEN MusicDataObject(AsList(filtered_test)) ELSE inst
    /\ norm_loaded_path' = MusicDataLoads(AsList(filtered_train))
    /\ data_list_arg' = IF MusicDataRaises(AsList(filtered_train)) # "ok"
                        THEN AsList(filtered_train)
                        ELSE IF MusicDataRaises(AsList(filtered_val)) # "ok"
                        THEN AsList(filtered_val)
                        ELSE AsList(filtered_test)
    /\ pc' = "idle"
    /\ UNCHANGED <<trainVars, fsVars, data_type, data_set, via_load_data, dir_missing, idx,
                   normalizer, filtered_train, filtered_val, filtered_test, norm_saves,
                   calls>>

Next ==
    \/ \E d \in DataTypes : LoadData(d)
    \/ \E d \in RecognisedNames : ProcessDataCall(d)
    \/ ProcessBegin
    \/ ExtractOne
    \/ ExtractRaises
    \/ NormCheck
    \/ AccumulateOne
    \/ NormSave
    \/ BuildLists
    \/ Construct


(* ------------------------- MusicData(data_list) ----------------------- *)
\* a construction of MusicData by a caller, the first call of a behaviour
NewMusicData(data_list) ==
    /\ pc = "idle"
    /\ outcome = "none"
    /\ data_list_arg' = data_list
    /\ norm_loaded_path' = MusicDataLoads(data_list)
    /\ IF MusicDataRaises(data_list) = "ok"
       THEN /\ inst' = MusicDataObject(data_list)
            /\ outcome' = "constructed"
       ELSE /\ inst' = inst
            /\ outcome' = MusicDataRaises(data_list)
    /\ UNCHANGED <<trainVars, fsVars, pc, data_type, data_set, via_load_data, dir_missing, idx,
                   normalizer, filtered_train, filtered_val, filtered_test, loaders,
                   norm_saves, calls>>

NextMusic == \E data_list \in DataLists : NewMusicData(data_list)

(* =============================== train.py ============================= *)
\* line 20: choices=['voc', 'coco', 'cityscapes'], default='voc'
Choices == {"voc", "coco", "cityscapes"}
DefaultDataName == "voc"
\* values tried on the command line ("absent": the flag is not given)
ArgvDataNames == Choices \cup {"absent", "DCASE2018A"}
ArgvBatchSizes == {32, 64}
ArgvIterations == {1, 3}
ArgvEpochs == 0..MaxEpochs

NoOpt == [data_name |-> "none", batch_size |-> 0, num_iterations |-> 0, num_epochs |-> 0]

Keys == {"train_loss", "test_loss", "train_accuracy_1", "test_accuracy_1",
         "train_accuracy_5", "test_accuracy_5"}

\* a freshly constructed (or reset) meter; src names the batches added since
EmptyLoss == [sum |-> 0, n |-> 0, src |-> {}]
EmptyAccuracy == [top1 |-> 0, top5 |-> 0, n |-> 0, src |-> {}]
EmptyConfuse == [n |-> 0, src |-> {}]
NoCheckpoint == [written |-> FALSE, epoch |-> 0, params |-> 0, acc |-> 0]

\* the state of the variables of train.py before the loop, lines 30-31 and 49-51
TrainVarsFresh ==
    /\ epoch = 0
    /\ batch = 0
    /\ results = [k \in Keys |-> <<>>]
    /\ results_src = [k \in Keys |-> <<>>]
    /\ meter_loss = EmptyLoss
    /\ meter_accuracy = EmptyAccuracy
    /\ meter_confuse = EmptyConfuse
    /\ best_acc = 0
    /\ checkpoint = NoCheckpoint
    /\ csv = <<>>
    /\ params = 0
    /\ optimizer_steps = 0
    /\ lr_steps = 0
    /\ iter_steps = 0

\* train.py has not started
TrainStart ==
    /\ tpc = "start"
    /\ opt = NoOpt
    /\ TrainVarsFresh

(* ------------------------ train.py, lines 19-36 ----------------------- *)
\* lines 19-27: argparse rejects a --data_name outside choices
ParseArgs(name, bs, it, ne) ==
    /\ tpc = "start"
    /\ IF name \in Choices \cup {"absent"}
       THEN /\ opt' = [data_name |-> IF name = "absent" THEN DefaultDataName ELSE name,
                       batch_size |-> bs, num_iterations |-> it, num_epochs |-> ne]
            /\ tpc' = "parsed"
       ELSE /\ opt' = opt
            /\ tpc' = "SystemExit"
    /\ UNCHANGED <<utilsVars, epoch, batch, results, results_src, meter_loss,
                   meter_accuracy, meter_confuse, best_acc, checkpoint, csv, params,
                   optimizer_steps, lr_steps, iter_steps>>

\* utils.py line 64: def load_data(data_type, batch_size=32)
LoadDataParams == <<"data_type", "batch_size">>
\* train.py line 35: utils.load_data(DATA_NAME, 'train', BATCH_SIZE, shuffle=True)
CallPositional == 3
CallKeywords == {"shuffle"}

\* Python binds the arguments of a call before the body runs
Binds(parameters, npos, keywords) ==
    /\ npos <= Len(parameters)
    /\ keywords \subseteq {parameters[i] : i \in (npos + 1)..Len(parameters)}

\* line 35: the call of utils.load_data
CallLoadData ==
    /\ tpc = "parsed"
    /\ tpc' = IF ~Binds(LoadDataParams, CallPositional, CallKeywords)
              THEN "TypeError"
              ELSE IF DataSetClass(opt.data_name) = "NotImplementedError"
              THEN "NotImplementedError"
              ELSE "loop_entry"
    /\ UNCHANGED <<utilsVars, opt, epoch, batch, results, results_src, meter_loss,
                   meter_accuracy, meter_confuse, best_acc, checkpoint, csv, params,
                   optimizer_steps, lr_steps, iter_steps>>

NextMain ==
    \/ \E name \in ArgvDataNames, bs \in ArgvBatchSizes, it \in ArgvIterations,
          ne \in ArgvEpochs : ParseArgs(name, bs, it, ne)
    \/ CallLoadData

(* ------------------- train.py, the epoch loop 70-155 ------------------ *)
\* what one batch contributes to the meters: its loss and whether its sample is
\* among the top-1 / top-5 predictions
BatchOutcomes == {[loss |-> 1, top1 |-> 1, top5 |-> 1],
                  [loss |-> 2, top1 |-> 0, top5 |-> 0]}

\* meter.add(...)
AddLoss(m, o, tag) == [sum |-> m.sum + o.loss, n |-> m.n + 1, src |-> m.src \cup {tag}]
AddAccuracy(m, o, tag) ==
    [top1 |-> m.top1 + o.top1, top5 |-> m.top5 + o.top5, n |-> m.n + 1,
     src |-> m.src \cup {tag}]
AddConfuse(m, o, tag) == [n |-> m.n + 1, src |-> m.src \cup {tag}]

\* meter_loss.value()[0], in hundredths
LossValue(m) == (100 * m.sum) \div m.n
\* meter_accuracy.value()[0] and [1], in percent
Accuracy1(m) == (100 * m.top1) \div m.n
Accuracy5(m) == (100 * m.top5) \div m.n

\* variant: the reset is left out
MeterReset_keep(m) == m

\* meter.reset()
MeterReset(m) == [f \in DOMAIN m |-> IF f = "src" THEN {} ELSE 0]

\* variant: range(1, NUM_EPOCH + 2)
EpochRange_long(n) == 1..(n + 1)

\* range(1, NUM_EPOCH + 1)
EpochRange(n) == 1..n

\* variant: >= in place of >
IsBetter_orEqual(acc, best) == acc >= best

\* line 126: meter_accuracy.value()[0] > best_acc
IsBetter(acc, best) == acc > best

\* variant: line 96 is left out
RecordTrain_short(res, loss, a1, a5) ==
    [res EXCEPT !["train_loss"] = Append(@, loss),
                !["train_accuracy_1"] = Append(@, a1)]

\* lines 94-96
RecordTrain(res, loss, a1, a5) ==
    [res EXCEPT !["train_loss"] = Append(@, loss),
                !["train_accuracy_1"] = Append(@, a1),
                !["train_accuracy_5"] = Append(@, a5)]

\* lines 123-125
RecordTest(res, loss, a1, a5) ==
    [res EXCEPT !["test_loss"] = Append(@, loss),
                !["test_accuracy_1"] = Append(@, a1),
                !["test_accuracy_5"] = Append(@, a5)]

\* the state at line 70: the setup of lines 19-68 is done
LoopInit ==
    /\ tpc = "loop_entry"
    /\ opt \in [data_name : {DefaultDataName}, batch_size : {64}, num_iterations : {3},
                num_epochs : ArgvEpochs]
    /\ TrainVarsFresh

\* lines 70-71: best_acc = 0, and the first value of the for loop
EnterLoop ==
    /\ tpc = "loop_entry"
    /\ best_acc' = 0
    /\ IF 1 \in EpochRange(opt.num_epochs)
       THEN /\ epoch' = 1
            /\ tpc' = "train"
       ELSE /\ epoch' = epoch
            /\ tpc' = "done"
    /\ batch' = 0
    /\ UNCHANGED <<utilsVars, opt, results, results_src, meter_loss, meter_accuracy,
                   meter_confuse, checkpoint, csv, params, optimizer_steps, lr_steps,
                   iter_steps>>

\* lines 75-89: one training batch
TrainBatch(o) ==
    /\ tpc = "train"
    /\ batch < NumTrainBatches
    /\ params' = params + 1
    /\ optimizer_steps' = optimizer_steps + 1
    /\ meter_loss' = AddLoss(meter_loss, o, <<epoch, "train">>)
    /\ meter_accuracy' = AddAccuracy(meter_accuracy, o, <<epoch, "train">>)
    /\ meter_confuse' = AddConfuse(meter_confuse, o, <<epoch, "train">>)
    /\ batch' = batch + 1
    /\ UNCHANGED <<utilsVars, tpc, opt, epoch, results, results_src, best_acc,
                   checkpoint, csv, lr_steps, iter_steps>>

\* lines 90-101: the train metrics are recorded, the schedulers step, the meters reset
TrainRecord ==
    /\ tpc = "train"
    /\ batch = NumTrainBatches
    /\ results' = RecordTrain(results, LossValue(meter_loss), Accuracy1(meter_accuracy),
                              Accuracy5(meter_accuracy))
    /\ results_src' = RecordTrain(results_src, meter_loss.src, meter_accuracy.src,
                                  meter_accuracy.src)
    /\ lr_steps' = lr_steps + 1
    /\ iter_steps' = iter_steps + 1
    /\ meter_loss' = MeterReset(meter_loss)
    /\ meter_accuracy' = MeterReset(meter_accuracy)
    /\ meter_confuse' = MeterReset(meter_confuse)
    /\ tpc' = "test"
    /\ batch' = 0
    /\ UNCHANGED <<utilsVars, opt, epoch, best_acc, checkpoint, csv, params,
                   optimizer_steps>>

\* lines 107-118: one test batch, under torch.no_grad()
TestBatch(o) ==
    /\ tpc = "test"
    /\ batch < NumTestBatches
    /\ meter_loss' = AddLoss(meter_loss, o, <<epoch, "test">>)
    /\ meter_accuracy' = AddAccuracy(meter_accuracy, o, <<epoch, "test">>)
    /\ meter_confuse' = AddConfuse(meter_confuse, o, <<epoch, "test">>)
    /\ batch' = batch + 1
    /\ UNCHANGED <<utilsVars, tpc, opt, epoch, results, results_src, best_acc,
                   checkpoint, csv, params, optimizer_steps, lr_steps, iter_steps>>

\* lines 119-132: the test metrics are recorded, the model saved when it is the
\* best so far, the meters reset
TestRecord ==
    /\ tpc = "test"
    /\ batch = NumTestBatches
    /\ results' = RecordTest(results, LossValue(meter_loss), Accuracy1(meter_accuracy),
                             Accuracy5(meter_accuracy))
    /\ results_src' = RecordTest(results_src, meter_loss.src, meter_accuracy.src,
                                 meter_accuracy.src)
    /\ IF IsBetter(Accuracy1(meter_accuracy), best_acc)
       THEN /\ best_acc' = Accuracy1(meter_accuracy)
            /\ checkpoint' = [written |-> TRUE, epoch |-> epoch, params |-> params,
                              acc |-> Accuracy1(meter_accuracy)]
       ELSE /\ best_acc' = best_acc
            /\ checkpoint' = checkpoint
    /\ meter_loss' = MeterReset(meter_loss)
    /\ meter_accuracy' = MeterReset(meter_accuracy)
    /\ meter_confuse' = MeterReset(meter_confuse)
    /\ tpc' = "vis"
    /\ UNCHANGED <<utilsVars, opt, epoch, batch, csv, params, optimizer_steps,
                   lr_steps, iter_steps>>

\* lines 134-151: the heat maps are logged; nothing the loop keeps is written
Visualise ==
    /\ tpc = "vis"
    /\ tpc' = "flush"
    /\ UNCHANGED <<utilsVars, opt, epoch, batch, results, results_src, meter_loss,
                   meter_accuracy, meter_confuse, best_acc, checkpoint, csv, params,
                   optimizer_steps, lr_steps, iter_steps>>

\* pd.DataFrame(data=results, index=range(1, epoch + 1)): one row per index
DataFrame(res, e) == [i \in 1..e |-> [k \in Keys \cup {"epoch"} |->
                                          IF k = "epoch" THEN i ELSE res[k][i]]]

\* lines 153-155 and the step of the for loop: the frame is built (it raises when
\* a list is not as long as the index) and written over the CSV file
Flush ==
    /\ tpc = "flush"
    /\ IF \A k \in Keys : Len(results[k]) = epoch
       THEN /\ csv' = DataFrame(results, epoch)
            /\ IF epoch + 1 \in EpochRange(opt.num_epochs)
               THEN /\ epoch' = epoch + 1
                    /\ tpc' = "train"
               ELSE /\ epoch' = epoch
                    /\ tpc' = "done"
       ELSE /\ csv' = csv
            /\ epoch' = epoch
            /\ tpc' = "ValueError"
    /\ batch' = 0
    /\ UNCHANGED <<utilsVars, opt, results, results_src, meter_loss, meter_accuracy,
                   meter_confuse, best_acc, checkpoint, params, optimizer_steps,
                   lr_steps, iter_steps>>

NextLoop ==
    \/ EnterLoop
    \/ \E o \in BatchOutcomes : TrainBatch(o)
    \/ TrainRecord
    \/ \E o \in BatchOutcomes : TestBatch(o)
    \/ TestRecord
    \/ Visualise
    \/ Flush

(* --------------------------- specifications --------------------------- *)
Init == UtilsInit /\ TrainStart
InitLoop == UtilsInit /\ LoopInit

Spec == Init /\ [][Next]_vars
SpecMusic == Init /\ [][NextMusic]_vars
SpecMain == Init /\ [][NextMain]_vars
SpecLoop == InitLoop /\ [][NextLoop]_vars

(* ================================ claims ============================== *)
\* every row of the three lists load_data built names an existing feature file
ListsHaveFeatures ==
    \A rows \in {filtered_train, filtered_val, filtered_test} :
        \A i \in DOMAIN rows : rows[i].file_name \in fs_features

\* C1: load_data called with a data_type outside the four recognised names raises
\* NotImplementedError, and the call leaves no dataset initialised, creates no
\* directory, feature file or normalization file and returns no loader; a call with
\* one of the four names never ends in NotImplementedError.
C1_UnknownNameRaisesFirst ==
    /\ [](/\ (data_type \in DataTypes \ RecognisedNames)
                => /\ outcome = "NotImplementedError"
                   /\ pc = "idle"
                   /\ data_set = NoDataSet
                   /\ loaders = "none"
          /\ (data_type \in RecognisedNames) => outcome # "NotImplementedError")
    /\ [][(calls' # calls /\ data_type' \notin RecognisedNames)
            => /\ fsVars' = fsVars
               /\ norm_saves' = norm_saves]_vars

\* an unrecognised name was rejected after an earlier call had created files
C1_Witness ==
    /\ outcome = "NotImplementedError"
    /\ data_type = "voc"
    /\ fs_features # {}

C4_LoadsPersistedFactors ==
    norm_loaded_path # NoPath
        => \E d \in RecognisedNames : norm_loaded_path = NormFactorsPath(d)

\* C5: process_data computes and writes the factors only when the file is missing
\* and never rewrites an existing file, so the factors of a data_type are saved at
\* most once, and they are accumulated over the files of train_files(fold=1) only.
C5_FactorsComputedOnce ==
    /\ [](/\ \A d \in DataTypes :
                /\ norm_saves[d] <= 1
                /\ Exists(NormFactorsPath(d))
                     => /\ norm_saves[d] = 1
                        /\ fs_norm[NormFactorsPath(d)].over = Range(TrainFold1)
          /\ pc \in {"accumulate", "finalize"}
                => /\ ~Exists(NormFactorsPath(data_type))
                   /\ normalizer \subseteq Range(TrainFold1))
    /\ [][\A d \in DataTypes :
            Exists(NormFactorsPath(d))
                => fs_norm'[NormFactorsPath(d)] = fs_norm[NormFactorsPath(d)]]_vars

\* a second call for the same data_type found the file and returned without
\* accumulating anything
C5_Witness ==
    /\ calls = 2
    /\ pc = "idle"
    /\ outcome = "returned"
    /\ ~dir_missing
    /\ normalizer = {}
    /\ norm_saves[data_type] = 1
    /\ \A d \in DataTypes \ {data_type} : FeaturesPath(d) \notin fs_dirs

\* C6 as stated: whenever process_data has returned into load_data and the lists
\* are built, every listed file has its feature file, whatever earlier runs did.
C6_FeaturesAlwaysCached ==
    pc = "construct" => ListsHaveFeatures

\* C6 amended: after a process_data call that found no features directory, every
\* file load_data lists has its feature file.
C6_FeaturesCachedWhenDirWasMissing ==
    (pc = "construct" /\ dir_missing) => ListsHaveFeatures

\* load_data built its lists after a call that created the features directory
C6_Witness ==
    /\ pc = "construct"
    /\ dir_missing
    /\ Len(filtered_train) > 0
    /\ Len(filtered_val) > 0
    /\ Len(filtered_test) > 0

\* C8: every --data_name the parser accepts is a name load_data recognises, and the
\* run ends neither in the call's TypeError nor in NotImplementedError.
C8_AcceptedNamesAreRecognised ==
    /\ tpc = "parsed" => opt.data_name \in RecognisedNames
    /\ tpc \notin {"TypeError", "NotImplementedError"}

TrainKeys == {"train_loss", "train_accuracy_1", "train_accuracy_5"}
TestKeys == {"test_loss", "test_accuracy_1", "test_accuracy_5"}
InEpoch == tpc \in {"train", "test", "vis", "flush"}
IsPrefix(s, t) == Len(s) <= Len(t) /\ \A i \in DOMAIN s : s[i] = t[i]
\* the largest of 0 and the entries of s
Max0(s) == CHOOSE m \in Range(s) \cup {0} : \A x \in Range(s) \cup {0} : x <= m

\* C3: after epoch e each of the six lists of results has exactly e entries, one
\* more per epoch; an entry once recorded never changes; the CSV written at the end
\* of epoch e has exactly the rows of epochs 1..e.
C3_ResultsGrowByOne ==
    /\ [](/\ tpc # "ValueError"
          /\ tpc = "train" => \A k \in Keys : Len(results[k]) = epoch - 1
          /\ tpc = "test" => /\ \A k \in TrainKeys : Len(results[k]) = epoch
                             /\ \A k \in TestKeys : Len(results[k]) = epoch - 1
          /\ tpc \in {"vis", "flush"} => \A k \in Keys : Len(results[k]) = epoch
          /\ tpc = "done" => /\ \A k \in Keys : Len(results[k]) = opt.num_epochs
                             /\ Len(csv) = opt.num_epochs
          /\ InEpoch => Len(csv) = epoch - 1
          /\ \A i \in DOMAIN csv :
                /\ csv[i]["epoch"] = i
                /\ \A k \in Keys : csv[i][k] = results[k][i])
    /\ [][\A k \in Keys : /\ IsPrefix(results[k], results'[k])
                          /\ Len(results'[k]) <= Len(results[k]) + 1]_vars

\* two epochs are done and the CSV holds both rows
C3_Witness ==
    /\ tpc = "done"
    /\ epoch = 2
    /\ Len(csv) = 2
    /\ results["test_accuracy_1"] = <<0, 100>>
    /\ csv[2]["test_accuracy_1"] = 100

C9_CheckpointIsEarliestBest ==
    /\ [](/\ best_acc = Max0(results["test_accuracy_1"])
          /\ checkpoint.written <=> best_acc > 0
          /\ checkpoint.written
                => /\ checkpoint.acc = best_acc
                   /\ results["test_accuracy_1"][checkpoint.epoch] = best_acc
                   /\ \A e \in 1..(checkpoint.epoch - 1) :
                         results["test_accuracy_1"][e] < best_acc
                   /\ checkpoint.params = checkpoint.epoch * NumTrainBatches)
    /\ [][/\ best_acc' >= best_acc
          /\ checkpoint' # checkpoint
                <=> /\ Len(results'["test_accuracy_1"]) = Len(results["test_accuracy_1"]) + 1
                    /\ results'["test_accuracy_1"][epoch] > best_acc]_vars

\* the maximum was reached in epoch 2 and again in epoch 3: epoch 2 is kept
C9_Witness ==
    /\ tpc = "done"
    /\ results["test_accuracy_1"] = <<50, 100, 100>>
    /\ checkpoint.written
    /\ checkpoint.epoch = 2
    /\ best_acc = 100

\* C10: the three meters are empty when a train phase and when a test phase starts,
\* and every value appended to results for a phase of epoch e was computed from the
\* batches of that phase of epoch e alone.
C10_MetersStartEmpty ==
    /\ (tpc \in {"train", "test"} /\ batch = 0) \/ tpc \in {"vis", "flush", "done"}
          => /\ meter_loss = EmptyLoss
             /\ meter_accuracy = EmptyAccuracy
             /\ meter_confuse = EmptyConfuse
    /\ tpc \in {"train", "test"}
          => /\ meter_loss.n = batch
             /\ meter_accuracy.n = batch
             /\ meter_confuse.n = batch
             /\ \A m \in {meter_loss.src, meter_accuracy.src, meter_confuse.src} :
                    m \subseteq {<<epoch, tpc>>}
    /\ \A k \in TrainKeys : \A e \in DOMAIN results_src[k] :
          results_src[k][e] = {<<e, "train">>}
    /\ \A k \in TestKeys : \A e \in DOMAIN results_src[k] :
          results_src[k][e] = {<<e, "test">>}

\* two epochs whose train and test phases gave opposite accuracies
C10_Witness ==
    /\ tpc = "done"
    /\ results["train_accuracy_1"] = <<100, 0>>
    /\ results["test_accuracy_1"] = <<0, 100>>
    /\ results_src["test_loss"] = <<{<<1, "test">>}, {<<2, "test">>}>>

====
